---------------------------- MODULE Spec2Model ----------------------------
(***************************************************************************)
(* The DivOp mixture node of archai (src/archai/algos/divnas/divop.py):    *)
(* construction, the capture flag, forward, and the two descriptor         *)
(* queries.  Positions stored in the node (not_allowed_indices,            *)
(* valid_to_orig, query indices) are Python positions, counted from 0;     *)
(* TLA+ sequences are indexed from 1, so a Python position p is element    *)
(* p + 1 of the sequence.                                                  *)
(***************************************************************************)
EXTENDS Integers, Sequences, FiniteSets, TLC

\* ------------------------------------------------------------------ bounds
MaxPrims == 3
MaxNotAllowed == 2
MaxCalls == 3

\* --------------------------------------------------------- configurations
\* Names a catalog may hold, in the order DivOp.PRIMITIVES lists them.
PrimOrder == <<"max_pool_3x3", "skip_connect", "sep_conv_3x3", "sep_conv_5x5", "none">>

IsInjective(s) == \A i, j \in 1..Len(s) : s[i] = s[j] => i = j

SeqsUpTo(S, lo, hi) == UNION {[1..n -> S] : n \in lo..hi}

\* The catalog of n kinds the constructor accepts: n - 1 operation kinds in
\* their listed order, then 'none'.  The code reads the names only to compare
\* them, so one catalog stands for every catalog of its length.
Catalog(n) == [i \in 1..n |-> IF i = n THEN "none" ELSE PrimOrder[i]]

\* The same kinds with 'none' first: the constructor's assertion rejects it.
Misordered(n) == [i \in 1..n |-> IF i = 1 THEN "none" ELSE PrimOrder[i - 1]]

Catalogs ==
    {Catalog(n) : n \in 1..MaxPrims} \cup {Misordered(n) : n \in 2..MaxPrims}

\* The excluded set, written as the list NOTALLOWED is: distinct names, in
\* any order.  A name that is not in the catalog makes construction fail.
ExcludedLists ==
    {s \in SeqsUpTo({PrimOrder[i] : i \in 1..(MaxPrims - 1)} \cup {"none"},
                    0, MaxNotAllowed) : IsInjective(s)}

Trainers == {"noalpha", "bilevel"}
Finalizers == {"default", "random"}

\* Raw mixture weights, one scalar per catalog entry: all equal, or all
\* different.
AlphaVecs(n) == {[i \in 1..n |-> 0], [i \in 1..n |-> i - 1]}

\* The alphas argument of the constructor: none supplied, or one parameter
\* holding one scalar per catalog entry.
AlphaArgs(n) == {<< >>} \cup {<<v>> : v \in AlphaVecs(n)}

Inputs == {1, 2}

\* ----------------------------------------------------------------- state
VARIABLES
    PRIMITIVES,           \* class attribute: the catalog
    NOTALLOWED,           \* class attribute: the excluded names
    trainer,              \* conf['nas']['search']['divnas']['archtrainer']
    finalizer,            \* conf['nas']['search']['finalizer']
    phase,                \* "new", "ready" (constructed) or "failed"
    error,                \* what the constructor raised, "" if nothing
    alphas,               \* self._alphas
    ops,                  \* self._ops: the primitive each sub-operation was made from
    collect_activations,  \* self._collect_activations
    forward_counter,      \* self._forward_counter
    batch_activs,         \* self._batch_activs
    not_allowed_indices,  \* self._not_allowed_indices
    valid_to_orig,        \* self._valid_to_orig
    last,                 \* the last call: operation, argument, outcome, evaluations
    result,               \* what the last forward call returned
    desc,                 \* what the last descriptor query returned
    capturing_calls,      \* history: forward calls made while the flag was set
    ncalls                \* history: forward calls and descriptor queries made

vars == <<PRIMITIVES, NOTALLOWED, trainer, finalizer, phase, error, alphas, ops,
          collect_activations, forward_counter, batch_activs,
          not_allowed_indices, valid_to_orig, last, result, desc,
          capturing_calls, ncalls>>

\* Python's None for an optional list: isNone, or the items of the list.
None == [isNone |-> TRUE, items |-> << >>]
Some(s) == [isNone |-> FALSE, items |-> s]

NoResult == [num |-> 0, den |-> 1]
NoDesc == [name |-> ""]
NoCall == [op |-> "", arg |-> 0, outcome |-> "", evals |-> << >>]


\* ------------------------------------------------------ Python list helpers
Min(a, b) == IF a <= b THEN a ELSE b

\* list.index(name): the first position holding name, -1 for ValueError.
ListIndex(list, name) ==
    IF \E i \in 1..Len(list) : list[i] = name
    THEN (CHOOSE i \in 1..Len(list) :
            list[i] = name /\ \A j \in 1..(i - 1) : list[j] # name) - 1
    ELSE -1

Contains(list, name) == \E i \in 1..Len(list) : list[i] = name

\* list[i] and del list[i] on a list of n items: the element addressed
\* (counted from 1), a negative i counting from the end; 0 for IndexError.
PyPos(n, i) ==
    IF 0 <= i /\ i < n THEN i + 1
    ELSE IF 0 - n <= i /\ i < 0 THEN n + i + 1
    ELSE 0

RemoveAt(list, p) ==
    [i \in 1..(Len(list) - 1) |-> IF i < p THEN list[i] ELSE list[i + 1]]

RECURSIVE InsertDesc(_, _)
InsertDesc(sorted, v) ==
    IF sorted = << >> THEN <<v>>
    ELSE IF v > Head(sorted) THEN <<v>> \o sorted
    ELSE <<Head(sorted)>> \o InsertDesc(Tail(sorted), v)

\* sorted(list, reverse=True)
RECURSIVE SortedReverse(_)
SortedReverse(list) ==
    IF list = << >> THEN << >>
    ELSE InsertDesc(SortedReverse(Tail(list)), Head(list))

RECURSIVE SeqSum(_)
SeqSum(s) == IF s = << >> THEN 0 ELSE Head(s) + SeqSum(Tail(s))

\* ------------------------------------------------- external collaborators
\* The sub-operations (archai.nas.operations) are outside this file: an
\* operation made from a primitive maps an input to an output tensor that
\* depends on the primitive and on the input, and finalizes to a descriptor
\* naming its primitive.
PrimCode(prim) ==
    CASE prim = "max_pool_3x3" -> 1
      [] prim = "skip_connect" -> 2
      [] prim = "sep_conv_3x3" -> 4
      [] prim = "sep_conv_5x5" -> 8
      [] OTHER -> 16

OpForward(prim, x) == [kind |-> "tensor", data |-> PrimCode(prim) * x]

OpFinalize(prim) == [name |-> prim]

\* t.cpu().detach().numpy(): the values of the tensor, as a host array.
ToNumpy(t) == [kind |-> "ndarray", data |-> t.data]

\* F.softmax(w, dim=0) over small integer weights, kept exact: entry i is
\* nums[i] / den, with the exponential taken to base 2.
Softmax(w) ==
    LET e == [i \in 1..Len(w) |-> 2 ^ w[i]]
    IN [nums |-> e, den |-> SeqSum(e)]

\* --------------------------------------------------------- index mapping
\* _indices_of_notallowed without its closing sort: the positions in the
\* order NOTALLOWED names them.
indices_of_notallowed_unsorted(P, NA) ==
    LET found == [i \in 1..Len(NA) |-> ListIndex(P, NA[i])]
    IN IF \E i \in 1..Len(NA) : found[i] = -1
       THEN [raised |-> TRUE, items |-> << >>]
       ELSE [raised |-> FALSE, items |-> found]

\* DivOp._indices_of_notallowed
indices_of_notallowed(P, NA) ==
    LET found == [i \in 1..Len(NA) |-> ListIndex(P, NA[i])]
    IN IF \E i \in 1..Len(NA) : found[i] = -1
       THEN [raised |-> TRUE, items |-> << >>]
       ELSE [raised |-> FALSE, items |-> SortedReverse(found)]

RECURSIVE ValidFrom(_, _, _)
ValidFrom(P, NA, i) ==
    IF i > Len(P) THEN << >>
    ELSE IF Contains(NA, P[i]) THEN ValidFrom(P, NA, i + 1)
    ELSE <<i - 1>> \o ValidFrom(P, NA, i + 1)

\* _create_mapping_valid_to_orig skipping only 'none', whatever NOTALLOWED
\* names.
create_mapping_skips_none_only(P, NA) == ValidFrom(P, <<"none">>, 1)

\* DivOp._create_mapping_valid_to_orig
create_mapping_valid_to_orig(P, NA) == ValidFrom(P, NA, 1)

\* DivOp.num_valid_div_ops
num_valid_div_ops(P, NA) == Len(P) - Len(NA)

\* ----------------------------------------------------------- construction
\* DivOp._set_alphas: the caller's parameters, or one self-allocated
\* parameter of len(PRIMITIVES) random scalars when none were supplied.  Its
\* assertion that the node has no parameter yet always passes where __init__
\* calls it: no sub-operation has been created at that point.
set_alphas(alphas_arg, rnd) ==
    IF Len(alphas_arg) = 0 THEN Some(<<rnd>>) ELSE Some(alphas_arg)

\* The fields of a node before __init__ has assigned any of them.
Blank ==
    [error |-> "", alphas |-> None, ops |-> << >>,
     not_allowed_indices |-> << >>, valid_to_orig |-> << >>]

\* __init__ with the trainer/finalizer check made after the weights and the
\* sub-operations exist.
init_checks_late(P, NA, tr, fin, alphas_arg, rnd) ==
    IF P[Len(P)] # "none"
    THEN [Blank EXCEPT !.error = "AssertionError"]
    ELSE
      LET a == IF tr # "noalpha" THEN set_alphas(alphas_arg, rnd) ELSE None
          created == [i \in 1..Len(P) |-> P[i]]
          na == indices_of_notallowed(P, NA)
      IN IF tr = "noalpha" /\ fin = "default"
         THEN [Blank EXCEPT !.error = "NotImplementedError", !.alphas = a,
                            !.ops = created]
         ELSE IF na.raised
         THEN [Blank EXCEPT !.error = "ValueError", !.alphas = a, !.ops = created]
         ELSE [error |-> "", alphas |-> a, ops |-> created,
               not_allowed_indices |-> na.items,
               valid_to_orig |-> create_mapping_valid_to_orig(P, NA)]

\* DivOp.__init__: the fields as they are when the constructor returns or
\* raises (error names the exception).
init(P, NA, tr, fin, alphas_arg, rnd) ==
    IF P[Len(P)] # "none"
    THEN [Blank EXCEPT !.error = "AssertionError"]
    ELSE IF tr = "noalpha" /\ fin = "default"
    THEN [Blank EXCEPT !.error = "NotImplementedError"]
    ELSE
      LET a == IF tr # "noalpha" THEN set_alphas(alphas_arg, rnd) ELSE None
          created == [i \in 1..Len(P) |-> P[i]]
          na == indices_of_notallowed(P, NA)
      IN IF na.raised
         THEN [Blank EXCEPT !.error = "ValueError", !.alphas = a, !.ops = created]
         ELSE [error |-> "", alphas |-> a, ops |-> created,
               not_allowed_indices |-> na.items,
               valid_to_orig |-> create_mapping_valid_to_orig(P, NA)]


\* ---------------------------------------------------------------- forward
\* One pass `op(x) for op in ops` over the first m sub-operations, in
\* catalog order.  Evaluations of a call are numbered from 1 across its
\* passes; this pass holds numbers off+1 .. off+m, and evaluation number
\* failAt raises (0: none does).  evals lists the positions whose
\* evaluation was started, outs the tensors of those that returned.
EvalPass(opseq, m, x, off, failAt) ==
    LET k == failAt - off
        raised == 1 <= k /\ k <= m
        returned == IF raised THEN k - 1 ELSE m
        started == IF raised THEN k ELSE m
    IN [raised |-> raised,
        outs |-> [i \in 1..returned |-> OpForward(opseq[i], x)],
        evals |-> [i \in 1..started |-> i - 1]]

\* for index in self._not_allowed_indices: del self._batch_activs[index]
RECURSIVE DelAll(_, _)
DelAll(buf, idxs) ==
    IF idxs = << >> THEN [raised |-> FALSE, items |-> buf]
    ELSE LET p == PyPos(Len(buf), Head(idxs))
         IN IF p = 0 THEN [raised |-> TRUE, items |-> buf]
            ELSE DelAll(RemoveAt(buf, p), Tail(idxs))

\* The capture branch of DivOp.forward (lines 111-117): counter, buffer
\* and evaluations after it, and whether it raised.
capture(opseq, skip, counter, buf, x, failAt) ==
    LET pass == EvalPass(opseq, Len(opseq), x, 0, failAt)
    IN IF pass.raised
       THEN [outcome |-> "raised", counter |-> counter + 1, buf |-> buf,
             evals |-> pass.evals]
       ELSE LET arrays == [i \in 1..Len(pass.outs) |-> ToNumpy(pass.outs[i])]
                kept == DelAll(arrays, skip)
            IN [outcome |-> IF kept.raised THEN "IndexError" ELSE "ok",
                counter |-> counter + 1, buf |-> Some(kept.items),
                evals |-> pass.evals]

\* The mixture branch of DivOp.forward (lines 119-125); off is the number
\* of evaluations the call has already made.
mixture(a, opseq, x, off, failAt) ==
    LET weighted == ~a.isNone /\ Len(a.items) > 0
        asm == IF weighted THEN Softmax(a.items[1]) ELSE [nums |-> << >>, den |-> 1]
        m == IF weighted THEN Min(Len(asm.nums), Len(opseq)) ELSE Len(opseq)
        pass == EvalPass(opseq, m, x, off, failAt)
        terms == [i \in 1..Len(pass.outs) |->
                    IF weighted THEN asm.nums[i] * pass.outs[i].data
                    ELSE pass.outs[i].data]
    IN IF pass.raised
       THEN [outcome |-> "raised", result |-> NoResult, evals |-> pass.evals]
       ELSE [outcome |-> "ok", result |-> [num |-> SeqSum(terms), den |-> asm.den],
             evals |-> pass.evals]

\* forward resetting the buffer when capture is off.
forward_clears_buffer(a, opseq, skip, collect, counter, buf, x, failAt) ==
    LET cap == IF collect THEN capture(opseq, skip, counter, buf, x, failAt)
               ELSE [outcome |-> "ok", counter |-> counter, buf |-> None,
                     evals |-> << >>]
    IN IF cap.outcome # "ok"
       THEN [outcome |-> cap.outcome, counter |-> cap.counter, buf |-> cap.buf,
             evals |-> cap.evals, result |-> NoResult]
       ELSE LET mix == mixture(a, opseq, x, Len(cap.evals), failAt)
            IN [outcome |-> mix.outcome, counter |-> cap.counter, buf |-> cap.buf,
                evals |-> cap.evals \o mix.evals, result |-> mix.result]

\* forward counting every call, capturing or not.
forward_counts_every_call(a, opseq, skip, collect, counter, buf, x, failAt) ==
    LET cap == IF collect THEN capture(opseq, skip, counter, buf, x, failAt)
               ELSE [outcome |-> "ok", counter |-> counter + 1, buf |-> buf,
                     evals |-> << >>]
    IN IF cap.outcome # "ok"
       THEN [outcome |-> cap.outcome, counter |-> cap.counter, buf |-> cap.buf,
             evals |-> cap.evals, result |-> NoResult]
       ELSE LET mix == mixture(a, opseq, x, Len(cap.evals), failAt)
            IN [outcome |-> mix.outcome, counter |-> cap.counter, buf |-> cap.buf,
                evals |-> cap.evals \o mix.evals, result |-> mix.result]

\* forward combining, on a capturing call, the activations it has just
\* stored (the excluded ones already deleted) instead of evaluating the
\* sub-operations again.
forward_reuses_captured(a, opseq, skip, collect, counter, buf, x, failAt) ==
    LET cap == IF collect THEN capture(opseq, skip, counter, buf, x, failAt)
               ELSE [outcome |-> "ok", counter |-> counter, buf |-> buf,
                     evals |-> << >>]
    IN IF cap.outcome # "ok"
       THEN [outcome |-> cap.outcome, counter |-> cap.counter, buf |-> cap.buf,
             evals |-> cap.evals, result |-> NoResult]
       ELSE IF collect
       THEN LET weighted == ~a.isNone /\ Len(a.items) > 0
                asm == IF weighted THEN Softmax(a.items[1])
                       ELSE [nums |-> << >>, den |-> 1]
                kept == cap.buf.items
                m == IF weighted THEN Min(Len(asm.nums), Len(kept)) ELSE Len(kept)
                terms == [i \in 1..m |-> IF weighted THEN asm.nums[i] * kept[i].data
                                         ELSE kept[i].data]
            IN [outcome |-> "ok", counter |-> cap.counter, buf |-> cap.buf,
                evals |-> cap.evals,
                result |-> [num |-> SeqSum(terms), den |-> asm.den]]
       ELSE LET mix == mixture(a, opseq, x, Len(cap.evals), failAt)
            IN [outcome |-> mix.outcome, counter |-> cap.counter, buf |-> cap.buf,
                evals |-> cap.evals \o mix.evals, result |-> mix.result]

\* DivOp.forward
forward(a, opseq, skip, collect, counter, buf, x, failAt) ==
    LET cap == IF collect THEN capture(opseq, skip, counter, buf, x, failAt)
               ELSE [outcome |-> "ok", counter |-> counter, buf |-> buf,
                     evals |-> << >>]
    IN IF cap.outcome # "ok"
       THEN [outcome |-> cap.outcome, counter |-> cap.counter, buf |-> cap.buf,
             evals |-> cap.evals, result |-> NoResult]
       ELSE LET mix == mixture(a, opseq, x, Len(cap.evals), failAt)
            IN [outcome |-> mix.outcome, counter |-> cap.counter, buf |-> cap.buf,
                evals |-> cap.evals \o mix.evals, result |-> mix.result]

\* ---------------------------------------------------------------- queries
\* DivOp.get_op_desc
get_op_desc(P, opseq, index) ==
    IF ~(index < Len(P)) THEN [outcome |-> "AssertionError", desc |-> NoDesc]
    ELSE LET p == PyPos(Len(opseq), index)
         IN IF p = 0 THEN [outcome |-> "IndexError", desc |-> NoDesc]
            ELSE [outcome |-> "ok", desc |-> OpFinalize(opseq[p])]

\* DivOp.get_valid_op_desc
get_valid_op_desc(P, NA, opseq, v2o, index) ==
    IF ~(index <= num_valid_div_ops(P, NA))
    THEN [outcome |-> "AssertionError", desc |-> NoDesc]
    ELSE LET p == PyPos(Len(v2o), index)
         IN IF p = 0 THEN [outcome |-> "IndexError", desc |-> NoDesc]
            ELSE LET q == PyPos(Len(opseq), v2o[p])
                 IN IF q = 0 THEN [outcome |-> "IndexError", desc |-> NoDesc]
                    ELSE [outcome |-> "ok", desc |-> OpFinalize(opseq[q])]

\* ---------------------------------------------------------------- actions
Init ==
    /\ PRIMITIVES \in Catalogs
    /\ NOTALLOWED \in ExcludedLists
    /\ trainer \in Trainers
    /\ finalizer \in Finalizers
    /\ phase = "new"
    /\ error = ""
    /\ alphas = None
    /\ ops = << >>
    /\ collect_activations = FALSE
    /\ forward_counter = 0
    /\ batch_activs = None
    /\ not_allowed_indices = << >>
    /\ valid_to_orig = << >>
    /\ last = NoCall
    /\ result = NoResult
    /\ desc = NoDesc
    /\ capturing_calls = 0
    /\ ncalls = 0

\* DivOp(op_desc, alphas, affine)
Construct ==
    /\ phase = "new"
    /\ \E alphas_arg \in AlphaArgs(Len(PRIMITIVES)), rnd \in AlphaVecs(Len(PRIMITIVES)) :
         LET made == init(PRIMITIVES, NOTALLOWED, trainer, finalizer, alphas_arg, rnd)
         IN /\ phase' = IF made.error = "" THEN "ready" ELSE "failed"
            /\ error' = made.error
            /\ alphas' = made.alphas
            /\ ops' = made.ops
            /\ not_allowed_indices' = made.not_allowed_indices
            /\ valid_to_orig' = made.valid_to_orig
    /\ collect_activations' = FALSE
    /\ forward_counter' = 0
    /\ batch_activs' = None
    /\ UNCHANGED <<PRIMITIVES, NOTALLOWED, trainer, finalizer, last, result, desc,
                   capturing_calls, ncalls>>

\* node.collect_activations = to_collect
SetCollectActivations ==
    /\ phase = "ready"
    /\ \E to_collect \in BOOLEAN :
         /\ collect_activations' = to_collect
         /\ last' = [op |-> "collect_activations", arg |-> IF to_collect THEN 1 ELSE 0,
                     outcome |-> "ok", evals |-> << >>]
    /\ UNCHANGED <<PRIMITIVES, NOTALLOWED, trainer, finalizer, phase, error, alphas,
                   ops, forward_counter, batch_activs, not_allowed_indices,
                   valid_to_orig, result, desc, capturing_calls, ncalls>>

\* node(x); evaluation number failAt of the call raises (0: none does)
Forward ==
    /\ phase = "ready"
    /\ ncalls < MaxCalls
    /\ \E x \in Inputs, failAt \in 0..(2 * Len(ops)) :
         LET r == forward(alphas, ops, not_allowed_indices, collect_activations,
                          forward_counter, batch_activs, x, failAt)
         IN /\ forward_counter' = r.counter
            /\ batch_activs' = r.buf
            /\ result' = r.result
            /\ last' = [op |-> "forward", arg |-> x, outcome |-> r.outcome,
                        evals |-> r.evals]
    /\ capturing_calls' = IF collect_activations THEN capturing_calls + 1
                          ELSE capturing_calls
    /\ ncalls' = ncalls + 1
    /\ UNCHANGED <<PRIMITIVES, NOTALLOWED, trainer, finalizer, phase, error, alphas,
                   ops, collect_activations, not_allowed_indices, valid_to_orig, desc>>

\* Indices a caller may ask for: every position, and one step past the
\* positions a Python list of n items accepts, on either side.
QueryIndices(n) == (0 - (n + 1))..(n + 1)

\* node.get_op_desc(index)
GetOpDesc ==
    /\ phase = "ready"
    /\ ncalls < MaxCalls
    /\ \E index \in QueryIndices(Len(PRIMITIVES)) :
         LET r == get_op_desc(PRIMITIVES, ops, index)
         IN /\ desc' = r.desc
            /\ last' = [op |-> "get_op_desc", arg |-> index, outcome |-> r.outcome,
                        evals |-> << >>]
    /\ ncalls' = ncalls + 1
    /\ UNCHANGED <<PRIMITIVES, NOTALLOWED, trainer, finalizer, phase, error, alphas,
                   ops, collect_activations, forward_counter, batch_activs,
                   not_allowed_indices, valid_to_orig, result, capturing_calls>>

\* node.get_valid_op_desc(index)
GetValidOpDesc ==
    /\ phase = "ready"
    /\ ncalls < MaxCalls
    /\ \E index \in QueryIndices(Len(PRIMITIVES)) :
         LET r == get_valid_op_desc(PRIMITIVES, NOTALLOWED, ops, valid_to_orig, index)
         IN /\ desc' = r.desc
            /\ last' = [op |-> "get_valid_op_desc", arg |-> index,
                        outcome |-> r.outcome, evals |-> << >>]
    /\ ncalls' = ncalls + 1
    /\ UNCHANGED <<PRIMITIVES, NOTALLOWED, trainer, finalizer, phase, error, alphas,
                   ops, collect_activations, forward_counter, batch_activs,
                   not_allowed_indices, valid_to_orig, result, capturing_calls>>

Next ==
    \/ Construct
    \/ SetCollectActivations
    \/ Forward
    \/ GetOpDesc
    \/ GetValidOpDesc

Spec == Init /\ [][Next]_vars

\* The node as the diversity-analysis driver uses it: it toggles capture and
\* runs forward calls.
NextDiversity ==
    \/ Construct
    \/ SetCollectActivations
    \/ Forward

SpecDiversity == Init /\ [][NextDiversity]_vars

\* The node as the architecture-finalization driver uses it: it asks for
\* finalized descriptors.
NextFinalize ==
    \/ Construct
    \/ GetOpDesc
    \/ GetValidOpDesc

SpecFinalize == Init /\ [][NextFinalize]_vars


\* ------------------------------------------------------------- properties
\* A step that is a forward call.
ForwardStep == last'.op = "forward" /\ ncalls' = ncalls + 1

\* The host array the sub-operation at catalog position pos yields on x.
Activation(pos, x) == ToNumpy(OpForward(PRIMITIVES[pos + 1], x))

Ascending(s) == \A i, j \in 1..Len(s) : i < j => s[i] < s[j]

\* C1: a forward call that returns, made while collect_activations is true,
\* leaves the capture buffer with exactly len(PRIMITIVES) - len(NOTALLOWED)
\* entries, entry i being the activation of the sub-operation at catalog
\* position valid_to_orig[i] (ascending original positions, no excluded
\* primitive among them), whatever the buffer held before, and increases
\* the call counter by exactly 1.
C1_CaptureFillsBuffer ==
    [][(ForwardStep /\ collect_activations /\ last'.outcome = "ok") =>
         /\ ~batch_activs'.isNone
         /\ Len(batch_activs'.items) = Len(PRIMITIVES) - Len(NOTALLOWED)
         /\ Len(batch_activs'.items) = Len(valid_to_orig)
         /\ Ascending(valid_to_orig)
         /\ \A i \in 1..Len(batch_activs'.items) :
              /\ batch_activs'.items[i] = Activation(valid_to_orig[i], last'.arg)
              /\ ~Contains(NOTALLOWED, PRIMITIVES[valid_to_orig[i] + 1])
         /\ forward_counter' = forward_counter + 1]_vars

\* A second capturing call has returned, on a catalog of three kinds of which
\* the first two are excluded: the buffer of the first call was replaced.
C1_Witness ==
    /\ last.op = "forward" /\ last.outcome = "ok" /\ collect_activations
    /\ forward_counter = 2
    /\ Len(PRIMITIVES) = 3
    /\ NOTALLOWED = <<"max_pool_3x3", "skip_connect">>
    /\ batch_activs = Some(<<Activation(2, last.arg)>>)

\* C2: a forward call made while collect_activations is false leaves the call
\* counter and the capture buffer as they were (the buffer is not cleared).
C2_NoCaptureFrame ==
    [][(ForwardStep /\ ~collect_activations) =>
         /\ forward_counter' = forward_counter
         /\ batch_activs' = batch_activs]_vars

\* A forward call was made with capture off while the buffer still held what
\* an earlier capturing call stored.
C2_Witness ==
    /\ last.op = "forward" /\ last.outcome = "ok" /\ ~collect_activations
    /\ forward_counter = 1
    /\ ~batch_activs.isNone /\ Len(batch_activs.items) = 2

\* C3: after construction valid_to_orig is strictly increasing, holds only
\* positions of primitives that are not excluded, and has length
\* len(catalog) - len(excluded), the value num_valid_div_ops reports.
C3_ValidToOrig ==
    phase = "ready" =>
        /\ Ascending(valid_to_orig)
        /\ \A i \in 1..Len(valid_to_orig) :
             /\ valid_to_orig[i] \in 0..(Len(PRIMITIVES) - 1)
             /\ ~Contains(NOTALLOWED, PRIMITIVES[valid_to_orig[i] + 1])
        /\ Len(valid_to_orig) = Len(PRIMITIVES) - Len(NOTALLOWED)
        /\ Len(valid_to_orig) = num_valid_div_ops(PRIMITIVES, NOTALLOWED)

\* A node was constructed whose excluded names are the first and the last of
\* three kinds: the one eligible position is 1.
C3_Witness ==
    /\ phase = "ready"
    /\ NOTALLOWED = <<"none", "max_pool_3x3">>
    /\ Len(PRIMITIVES) = 3
    /\ valid_to_orig = <<1>>

\* C4: get_valid_op_desc(index) fails its own range check for every index
\* outside 0 .. num_valid_div_ops - 1; it neither returns a descriptor for
\* such an index nor fails through a later error.
C4_ValidIndexRangeCheck ==
    (last.op = "get_valid_op_desc"
       /\ last.arg \notin 0..(num_valid_div_ops(PRIMITIVES, NOTALLOWED) - 1))
    => last.outcome = "AssertionError"

\* C5: get_op_desc(index) returns the finalized descriptor of the
\* sub-operation at catalog position index when 0 <= index < len(PRIMITIVES),
\* and fails with an out-of-range condition for every other index.
C5_CatalogIndex ==
    last.op = "get_op_desc" =>
        IF last.arg \in 0..(Len(PRIMITIVES) - 1)
        THEN last.outcome = "ok" /\ desc = OpFinalize(PRIMITIVES[last.arg + 1])
        ELSE last.outcome \in {"AssertionError", "IndexError"}

\* The combination over every catalog entry: softmax(w)[i] * op_i(x) summed
\* over all positions in weighted mode, the plain sum in unweighted mode.
FullMixture(x) ==
    LET n == Len(PRIMITIVES)
        out == [i \in 1..n |-> OpForward(PRIMITIVES[i], x).data]
    IN IF trainer = "noalpha"
       THEN [num |-> SeqSum(out), den |-> 1]
       ELSE LET sm == Softmax(alphas.items[1])
            IN [num |-> SeqSum([i \in 1..n |-> sm.nums[i] * out[i]]), den |-> sm.den]

\* C6: a forward call that returns, with capture on or off, returns the
\* combination over every catalog entry, excluded primitives included.
C6_MixtureOutput ==
    (phase = "ready" /\ last.op = "forward" /\ last.outcome = "ok") =>
        result.num * FullMixture(last.arg).den = FullMixture(last.arg).num * result.den

\* A capturing call returned on a weighted node with unequal weights and an
\* excluded primitive.
C6_Witness ==
    /\ last.op = "forward" /\ last.outcome = "ok" /\ collect_activations
    /\ trainer = "bilevel"
    /\ Len(PRIMITIVES) = 3
    /\ alphas = Some(<<<<0, 1, 2>>>>)
    /\ NOTALLOWED = <<"none">>

\* C7: construction with trainer 'noalpha' and finalizer 'default' fails
\* before any mixture weight is allocated or any sub-operation is created,
\* with NotImplementedError when the catalog is well formed; no other
\* trainer/finalizer combination raises that error.
C7_ConfigConflict ==
    /\ (phase # "new" /\ trainer = "noalpha" /\ finalizer = "default") =>
          /\ phase = "failed"
          /\ alphas = None
          /\ ops = << >>
          /\ (PRIMITIVES[Len(PRIMITIVES)] = "none" => error = "NotImplementedError")
    /\ error = "NotImplementedError" =>
          (trainer = "noalpha" /\ finalizer = "default")

C7_Witness == phase = "failed" /\ error = "NotImplementedError"

\* C8: in every forward call that returns, with capture on or off, each
\* sub-operation is evaluated exactly once, in catalog order.
C8_EvaluatedOnce ==
    (last.op = "forward" /\ last.outcome = "ok") =>
        last.evals = [i \in 1..Len(PRIMITIVES) |-> i - 1]

\* C9: a forward call that fails leaves the capture buffer and the call
\* counter as they were before the call.
C9_FailedCallFrame ==
    [][(ForwardStep /\ last'.outcome # "ok") =>
         /\ forward_counter' = forward_counter
         /\ batch_activs' = batch_activs]_vars

\* C10: the call counter never decreases, is not changed by assigning the
\* capture flag, and equals the number of forward calls made while capture
\* was enabled.
C10_Counter ==
    /\ [](forward_counter = capturing_calls)
    /\ [][/\ forward_counter' >= forward_counter
          /\ (last'.op = "collect_activations" => forward_counter' = forward_counter)]_vars

\* Three calls were made, two of them capturing, with the flag assigned in
\* between.
C10_Witness ==
    /\ ncalls = 3 /\ forward_counter = 2
    /\ last.op = "collect_activations" /\ ~collect_activations

=============================================================================
